---- MODULE Spec2Model ----
(***************************************************************************)
(* The Live Attendance page (src/src/pages/LiveAttendance.tsx) together    *)
(* with the two stores it talks to: the students table (the gallery) and   *)
(* the attendance_records table (the attendance sink).                     *)
(*                                                                         *)
(* One action per handler or promise continuation of the page.  An async   *)
(* handler is split at its await: what runs before the await is one        *)
(* action, the continuation another, and every other handler may run in    *)
(* between.                                                                *)
(***************************************************************************)
EXTENDS Integers, Sequences, FiniteSets, TLC

\* ---------------------------------------------------------------- bounds
NumStudents == 2      \* student ids 1..NumStudents may be enrolled
MaxDay      == 2      \* calendar days the clock runs through
MaxSaves    == 2      \* inserts sent to the sink in one behaviour
MaxFrames   == 3      \* frames of one session in which a student is recognized
MaxLowPeriod == 1     \* the user picks among periods 1..MaxLowPeriod and 8
MaxDist     == 3      \* descriptor distances are 0..MaxDist
MaxEps      == 1      \* the matcher's tie margin is 0..MaxEps
MaxJoins    == 2      \* submissions of the Join as Faculty form
MaxAccounts == 2      \* accounts auth.signUp creates for the other two forms

\* ------------------------------------------------------------- constants
NumPeriods == 8       \* periodTimes has keys 1..8

StudentIds == 1..NumStudents
Statuses   == {"present", "sleepy", "absent"}
Labels     == {"attentive", "drowsy"}
NoUser     == "nouser"
UserId     == "u1"
None       == [kind |-> "none"]
Unknown    == 0       \* the match result that names no enrolled student
Refs       == {"ref1", "ref2"}   \* the reference embeddings of an identity
Codes      == {"K1", "K2"}       \* the invitation codes generateCode may draw
JoinClients == {"a", "b"}        \* the browsers showing the Join as Faculty page

\* roll_number of the student row with the given id (distinct per student)
RollNumber(s) == NumStudents + 1 - s

\* the SelectItem values numbered from zero
PeriodToString_FromZero(p) == <<"0", "1", "2", "3", "4", "5", "6", "7">>[p]

\* p.toString() of the SelectItem values, for p in 1..8
PeriodToString(p) == <<"1", "2", "3", "4", "5", "6", "7", "8">>[p]

\* the value of a decimal digit
DigitValue ==
  ("0" :> 0) @@ ("1" :> 1) @@ ("2" :> 2) @@ ("3" :> 3) @@ ("4" :> 4) @@
  ("5" :> 5) @@ ("6" :> 6) @@ ("7" :> 7) @@ ("8" :> 8) @@ ("9" :> 9)

\* parseInt(selectedPeriod), for the one-digit strings the Select holds
ParseInt(str) == DigitValue[str]

\* the periods the user picks in the Select (a bounded choice of inputs)
PeriodInputs == (1..MaxLowPeriod) \cup {8}

VARIABLES
  gallery,        \* rows of the students table: the set of enrolled ids
  sink,           \* rows of the attendance_records table
  today,          \* the calendar day new Date() falls on
  user,           \* useAuth().user: UserId or NoUser
  cameraOn,       \* useState(false)
  selectedPeriod, \* useState("1"): the string value of the Select
  period8Free,    \* useState(false)
  students,       \* useState([]): the fetched rows, as a sequence of ids
  attendance,     \* useState([]): sequence of AttendanceEntry
  saving,         \* useState(false)
  faceApiLoaded,  \* useState(false)
  fetchPc,        \* fetchStudents: "pending" until its await resolves
  modelsPc,       \* loadModels: "loading" until its await settles
  request,        \* the insert this page awaits, or None
  orphans,        \* inserts sent by earlier mounts of the page, not yet answered
  toast,          \* the last toast shown
  nSaves,         \* number of inserts sent so far
  count_seen,     \* per student: frames of this session that showed the student
  count_drowsy,   \* per student: of those, frames labelled drowsy
  count_unknown,  \* frames of this session that showed an unrecognized person
  last_seen,      \* per student: number of the last frame that showed the student, 0 if none
  lastManual,     \* per student: status of the last manual operation, or "none"
  lastAttempt,    \* the last answered insert of this page and its result, or None
  probe,          \* the matcher's last input: distances, threshold, margin; or None
  matched,        \* the matcher's last result: an enrolled id or Unknown
  faculty_codes,  \* the faculty_codes table: rows code, principal_id, is_used
  authUsers,      \* the ids of the accounts auth.signUp created
  profiles,       \* the profiles table: rows id, role, principal_id
  join,           \* per browser, the JoinFaculty component and where handleJoin stands
  joinedWith,     \* history: which profile handleJoin created with which code
  nJoins,         \* submissions of the join form so far
  loading,        \* useAuth().loading: the session is still being read
  location,       \* the route the browser shows
  view,           \* what DashboardLayout returned at its last render
  effectPending,  \* DashboardLayout's effect is due after that render
  register        \* the Register component and where handleRegister stands

vars == <<gallery, sink, today, user, cameraOn, selectedPeriod, period8Free,
          students, attendance, saving, faceApiLoaded, fetchPc, modelsPc,
          request, orphans, toast, nSaves, count_seen, count_drowsy,
          count_unknown, last_seen, lastManual, lastAttempt, probe, matched,
          faculty_codes, authUsers, profiles, join, joinedWith, nJoins,
          loading, location, view, effectPending, register>>

dbVars   == <<gallery, sink, today>>
pageVars == <<cameraOn, selectedPeriod, period8Free, students, attendance,
              saving, faceApiLoaded, fetchPc, modelsPc>>
tallyVars == <<count_seen, count_drowsy, count_unknown, last_seen>>
matchVars == <<probe, matched>>
\* what the handlers of the Live Attendance page never touch
joinVars == <<faculty_codes, authUsers, profiles, join, joinedWith, nJoins>>
layoutVars == <<loading, location, view, effectPending>>
otherVars == <<matchVars, joinVars, layoutVars, register>>
\* the Live Attendance page, its user and the two tables it reads and writes
liveVars == <<dbVars, user, pageVars, request, orphans, toast, nSaves,
              tallyVars, lastManual, lastAttempt>>

\* ------------------------------------------------------------- helpers
RECURSIVE OrderByRollNumber(_)
\* .order("roll_number"): the ids of a set of rows by ascending roll_number
OrderByRollNumber(S) ==
  IF S = {} THEN <<>>
  ELSE LET first == CHOOSE s \in S : \A t \in S : RollNumber(s) <= RollNumber(t)
       IN <<first>> \o OrderByRollNumber(S \ {first})

\* the roll initialised as present instead of absent
InitialAttendance_Present(data) ==
  [i \in 1..Len(data) |->
     [studentId |-> data[i], rollNumber |-> RollNumber(data[i]), status |-> "present"]]

\* data.map(s => ({studentId, rollNumber, status: "absent"}))
InitialAttendance(data) ==
  [i \in 1..Len(data) |->
     [studentId |-> data[i], rollNumber |-> RollNumber(data[i]), status |-> "absent"]]

\* prev.map(a => a.studentId === studentId ? {...a, status} : a)
UpdateStatusMap_EveryEntry(prev, studentId, status) ==
  [i \in 1..Len(prev) |-> [prev[i] EXCEPT !.status = status]]

UpdateStatusMap(prev, studentId, status) ==
  [i \in 1..Len(prev) |->
     IF prev[i].studentId = studentId THEN [prev[i] EXCEPT !.status = status]
     ELSE prev[i]]

\* a map that marks present only who is absent
MarkAllPresentMap_OnlyAbsent(prev) ==
  [i \in 1..Len(prev) |->
     IF prev[i].status = "absent" THEN [prev[i] EXCEPT !.status = "present"]
     ELSE prev[i]]

\* prev.map(a => ({...a, status: "present"}))
MarkAllPresentMap(prev) ==
  [i \in 1..Len(prev) |-> [prev[i] EXCEPT !.status = "present"]]

\* attendance.map(a => ({student_id, date, period, status, verified_by}))
Records(att, date, period, uid) ==
  [i \in 1..Len(att) |->
     [student_id |-> att[i].studentId, date |-> date, period |-> period,
      status |-> att[i].status, verified_by |-> uid]]

RollIds(att) == {att[i].studentId : i \in 1..Len(att)}

Key(row) == <<row.student_id, row.date, row.period>>

\* a table without the unique constraint: no insert is ever a duplicate
Duplicate_NoConstraint(tbl, records) == FALSE

\* the unique constraint of attendance_records on (student_id, date, period)
Duplicate(tbl, records) ==
  \/ \E i \in 1..Len(records) : \E row \in tbl : Key(row) = Key(records[i])
  \/ \E i, j \in 1..Len(records) : i # j /\ Key(records[i]) = Key(records[j])

\* the answers the table can give to insert(records)
InsertResults(tbl, records) ==
  {"unavailable"} \cup (IF Duplicate(tbl, records) THEN {"duplicate"} ELSE {"success"})

\* the table after insert(records) answered with result: one statement, all rows or none
InsertRows(tbl, records, result) ==
  IF result = "success" THEN tbl \cup {records[i] : i \in 1..Len(records)} ELSE tbl

\* the toast saveAttendance shows for an answer of the insert
ToastFor(result) ==
  CASE result = "success"   -> "success"
    [] result = "duplicate" -> "already recorded"
    [] OTHER                -> "error"

\* a selector that offers period 8 whatever the switch says
maxPeriods_Always8 == NumPeriods

maxPeriods == IF period8Free THEN 7 ELSE 8

\* the routes whose page is wrapped in DashboardLayout, as far as modelled
LayoutRoutes == {"/live-attendance"}

\* a DashboardLayout without the check for a missing user
LayoutView_NoUserCheck(l, u) ==
  IF l THEN "spinner" ELSE "children"

\* what DashboardLayout returns for the values of useAuth()
LayoutView(l, u) ==
  IF l THEN "spinner"
  ELSE IF u = NoUser THEN "null"
  ELSE "children"

\* DashboardLayout renders the page's controls only as its children
Rendered == view = "children"

RECURSIVE SumOver(_, _)
SumOver(f, S) ==
  IF S = {} THEN 0
  ELSE LET s == CHOOSE x \in S : TRUE IN f[s] + SumOver(f, S \ {s})

\* frames of this session that showed some enrolled student
FramesSeen == SumOver(count_seen, StudentIds)

\* frames of this session so far; a frame's number is its timestamp
Frames == FramesSeen + count_unknown

\* distance of the descriptor to an identity: the least over its references
IdentityDistance(dist, s) ==
  LET r == CHOOSE x \in Refs : \A y \in Refs : dist[s][x] <= dist[s][y]
  IN dist[s][r]

\* farther than any descriptor is from any identity, by more than any margin
Farthest == MaxDist + MaxEps + 1

\* one pass over the identities, keeping the nearest and the runner-up distance
RECURSIVE NearestScan(_, _, _)
NearestScan(dist, S, acc) ==
  IF S = {} THEN acc
  ELSE LET s == CHOOSE x \in S : \A y \in S : x <= y
           d == IdentityDistance(dist, s)
       IN NearestScan(dist, S \ {s},
            IF d < acc.best
              THEN [id |-> s, best |-> d, second |-> acc.best]
              ELSE [acc EXCEPT !.second = IF d < @ THEN d ELSE @])

\* the nearest identity whatever its distance and whoever else is as near
Match_ForcedBest(p, S) ==
  LET r == NearestScan(p.dist, S,
             [id |-> Unknown, best |-> Farthest, second |-> Farthest])
  IN r.id

\* the MatchResult for descriptor distances p over the identities S
Match(p, S) ==
  LET r == NearestScan(p.dist, S,
             [id |-> Unknown, best |-> Farthest, second |-> Farthest])
  IN IF r.id = Unknown \/ r.best > p.threshold
          \/ r.second - r.best <= p.epsilon
       THEN Unknown
       ELSE r.id

NoTally == [s \in StudentIds |-> 0]

\* the JoinFaculty component as mounted, no handleJoin running
JoinIdle ==
  [pc |-> "idle", code |-> "", codeData |-> None, userId |-> 0,
   loading |-> FALSE, toast |-> "none"]

\* the Register component as mounted, no handleRegister running
RegisterIdle ==
  [pc |-> "idle", userId |-> 0, loading |-> FALSE, toast |-> "none"]

\* handleJoin returns after an error toast: setLoading(false)
JoinFailed(j, message) ==
  [j EXCEPT !.pc = "idle", !.loading = FALSE, !.toast = message]
NoManual == [s \in StudentIds |-> "none"]

\* ---------------------------------------------------------------- Init
Init ==
  /\ gallery \in {1..n : n \in 0..NumStudents}
  /\ sink = {}
  /\ today = 1
  /\ user = UserId
  /\ cameraOn = FALSE
  /\ selectedPeriod = "1"
  /\ period8Free = FALSE
  /\ students = <<>>
  /\ attendance = <<>>
  /\ saving = FALSE
  /\ faceApiLoaded = FALSE
  /\ fetchPc = "pending"
  /\ modelsPc = "loading"
  /\ request = None
  /\ orphans = {}
  /\ toast = "none"
  /\ nSaves = 0
  /\ count_seen = NoTally
  /\ count_drowsy = NoTally
  /\ count_unknown = 0
  /\ last_seen = NoTally
  /\ lastManual = NoManual
  /\ lastAttempt = None
  /\ probe = None
  /\ matched = Unknown
  /\ faculty_codes = {}
  /\ authUsers = {}
  /\ profiles = {}
  /\ join = [c \in JoinClients |-> JoinIdle]
  /\ joinedWith = {}
  /\ nJoins = 0
  /\ loading = FALSE
  /\ location = "/live-attendance"
  /\ view = "children"
  /\ effectPending = FALSE
  /\ register = RegisterIdle

\* ------------------------------------------------------------- actions
\* navigating to /live-attendance again: a fresh component, every useState
\* back at its initial value; an insert still awaited keeps running
PageReset ==
  /\ cameraOn' = FALSE
  /\ selectedPeriod' = "1"
  /\ period8Free' = FALSE
  /\ students' = <<>>
  /\ attendance' = <<>>
  /\ saving' = FALSE
  /\ faceApiLoaded' = FALSE
  /\ fetchPc' = "pending"
  /\ modelsPc' = "loading"
  /\ orphans' = IF request = None THEN orphans ELSE orphans \cup {request}
  /\ request' = None
  /\ count_seen' = NoTally
  /\ count_drowsy' = NoTally
  /\ count_unknown' = 0
  /\ last_seen' = NoTally
  /\ lastManual' = NoManual
  /\ lastAttempt' = None

Mount ==
  /\ PageReset
  /\ UNCHANGED <<dbVars, user, toast, nSaves>>
  /\ UNCHANGED otherVars

\* a page that fetches the students again at any time
FetchStudentsResolve_Refetch ==
  /\ fetchPc' = "done"
  /\ \E ok \in BOOLEAN :
       IF ok
       THEN LET data == OrderByRollNumber(gallery) IN
            /\ students' = data
            /\ attendance' = InitialAttendance(data)
       ELSE UNCHANGED <<students, attendance>>
  /\ UNCHANGED <<dbVars, user, cameraOn, selectedPeriod, period8Free, saving,
                 faceApiLoaded, modelsPc, request, orphans, toast, nSaves,
                 tallyVars, lastManual, lastAttempt>>
  /\ UNCHANGED otherVars

\* fetchStudents after its await: data is the rows by roll_number, or null
FetchStudentsResolve ==
  /\ fetchPc = "pending"
  /\ fetchPc' = "done"
  /\ \E ok \in BOOLEAN :
       IF ok
       THEN LET data == OrderByRollNumber(gallery) IN
            /\ students' = data
            /\ attendance' = InitialAttendance(data)
       ELSE UNCHANGED <<students, attendance>>
  /\ UNCHANGED <<dbVars, user, cameraOn, selectedPeriod, period8Free, saving,
                 faceApiLoaded, modelsPc, request, orphans, toast, nSaves,
                 tallyVars, lastManual, lastAttempt>>
  /\ UNCHANGED otherVars

\* loadModels after its awaits: the three nets loaded, or one of them threw
LoadModelsResolve ==
  /\ modelsPc = "loading"
  /\ \E ok \in BOOLEAN :
       /\ modelsPc' = IF ok THEN "loaded" ELSE "failed"
       /\ faceApiLoaded' = IF ok THEN TRUE ELSE faceApiLoaded
  /\ UNCHANGED <<dbVars, user, cameraOn, selectedPeriod, period8Free, students,
                 attendance, saving, fetchPc, request, orphans, toast, nSaves,
                 tallyVars, lastManual, lastAttempt>>
  /\ UNCHANGED otherVars

\* the Start/Stop Camera button
ToggleCamera ==
  /\ Rendered
  /\ cameraOn' = ~cameraOn
  /\ UNCHANGED <<dbVars, user, selectedPeriod, period8Free, students, attendance,
                 saving, faceApiLoaded, fetchPc, modelsPc, request, orphans,
                 toast, nSaves, tallyVars, lastManual, lastAttempt>>
  /\ UNCHANGED otherVars

\* the Select: one of the offered items 1..maxPeriods is chosen
SelectPeriod ==
  /\ Rendered
  /\ \E p \in (1..maxPeriods) \cap PeriodInputs :
       selectedPeriod' = PeriodToString(p)
  /\ UNCHANGED <<dbVars, user, cameraOn, period8Free, students, attendance,
                 saving, faceApiLoaded, fetchPc, modelsPc, request, orphans,
                 toast, nSaves, tallyVars, lastManual, lastAttempt>>
  /\ UNCHANGED otherVars

\* the "Period 8 is free" Switch
TogglePeriod8Free ==
  /\ Rendered
  /\ period8Free' = ~period8Free
  /\ UNCHANGED <<dbVars, user, cameraOn, selectedPeriod, students, attendance,
                 saving, faceApiLoaded, fetchPc, modelsPc, request, orphans,
                 toast, nSaves, tallyVars, lastManual, lastAttempt>>
  /\ UNCHANGED otherVars

\* updateStatus(studentId, status)
UpdateStatus ==
  /\ Rendered
  /\ \E s \in StudentIds, st \in Statuses :
       /\ attendance' = UpdateStatusMap(attendance, s, st)
       /\ lastManual' = IF s \in RollIds(attendance)
                        THEN [lastManual EXCEPT ![s] = st] ELSE lastManual
  /\ UNCHANGED <<dbVars, user, cameraOn, selectedPeriod, period8Free, students,
                 saving, faceApiLoaded, fetchPc, modelsPc, request, orphans,
                 toast, nSaves, tallyVars, lastAttempt>>
  /\ UNCHANGED otherVars

\* markAllPresent()
MarkAllPresent ==
  /\ Rendered
  /\ attendance' = MarkAllPresentMap(attendance)
  /\ lastManual' = [s \in StudentIds |->
                      IF s \in RollIds(attendance) THEN "present" ELSE lastManual[s]]
  /\ UNCHANGED <<dbVars, user, cameraOn, selectedPeriod, period8Free, students,
                 saving, faceApiLoaded, fetchPc, modelsPc, request, orphans,
                 toast, nSaves, tallyVars, lastAttempt>>
  /\ UNCHANGED otherVars

\* a saveAttendance without the check for a free period 8
SaveAttendance_NoSkip ==
  /\ Rendered
  /\ ~saving
  /\ IF user = NoUser
     THEN UNCHANGED <<saving, request, toast, nSaves>>
     ELSE LET period == ParseInt(selectedPeriod) IN
          /\ nSaves < MaxSaves
          /\ saving' = TRUE
          /\ request' = [kind |-> "insert", date |-> today, period |-> period,
                         records |-> Records(attendance, today, period, user)]
          /\ nSaves' = nSaves + 1
          /\ UNCHANGED toast
  /\ UNCHANGED <<dbVars, user, cameraOn, selectedPeriod, period8Free, students,
                 attendance, faceApiLoaded, fetchPc, modelsPc, orphans,
                 tallyVars, lastManual, lastAttempt>>
  /\ UNCHANGED otherVars

\* saveAttendance up to its await: the Save button is disabled while saving
SaveAttendance ==
  /\ Rendered
  /\ ~saving
  /\ IF user = NoUser
     THEN UNCHANGED <<saving, request, toast, nSaves>>
     ELSE LET period == ParseInt(selectedPeriod) IN
          IF period = 8 /\ period8Free
          THEN /\ toast' = "period 8 free"
               /\ UNCHANGED <<saving, request, nSaves>>
          ELSE /\ nSaves < MaxSaves
               /\ saving' = TRUE
               /\ request' = [kind |-> "insert", date |-> today, period |-> period,
                              records |-> Records(attendance, today, period, user)]
               /\ nSaves' = nSaves + 1
               /\ UNCHANGED toast
  /\ UNCHANGED <<dbVars, user, cameraOn, selectedPeriod, period8Free, students,
                 attendance, faceApiLoaded, fetchPc, modelsPc, orphans,
                 tallyVars, lastManual, lastAttempt>>
  /\ UNCHANGED otherVars

\* a saveAttendance that inserts the records one by one: the rows that do not
\* conflict are written, the others refused
SaveAttendanceResolve_RowByRow ==
  /\ request # None
  /\ \E result \in InsertResults(sink, request.records) :
       /\ sink' = IF result = "unavailable" THEN sink
                  ELSE sink \cup {request.records[i] :
                         i \in {j \in 1..Len(request.records) :
                                  \A row \in sink :
                                    Key(row) # Key(request.records[j])}}
       /\ toast' = ToastFor(result)
       /\ lastAttempt' = [kind |-> "attempt", date |-> request.date,
                          period |-> request.period,
                          records |-> request.records, result |-> result]
  /\ saving' = FALSE
  /\ request' = None
  /\ UNCHANGED <<gallery, today, user, cameraOn, selectedPeriod, period8Free,
                 students, attendance, faceApiLoaded, fetchPc, modelsPc, orphans,
                 nSaves, tallyVars, lastManual>>
  /\ UNCHANGED otherVars

\* a saveAttendance that returns on an error of the insert before
\* setSaving(false)
SaveAttendanceResolve_ReturnsOnError ==
  /\ request # None
  /\ \E result \in InsertResults(sink, request.records) :
       /\ sink' = InsertRows(sink, request.records, result)
       /\ toast' = ToastFor(result)
       /\ lastAttempt' = [kind |-> "attempt", date |-> request.date,
                          period |-> request.period,
                          records |-> request.records, result |-> result]
       /\ saving' = (result # "success")
  /\ request' = None
  /\ UNCHANGED <<gallery, today, user, cameraOn, selectedPeriod, period8Free,
                 students, attendance, faceApiLoaded, fetchPc, modelsPc, orphans,
                 nSaves, tallyVars, lastManual>>
  /\ UNCHANGED otherVars

\* saveAttendance after its await: the table answered the insert
SaveAttendanceResolve ==
  /\ request # None
  /\ \E result \in InsertResults(sink, request.records) :
       /\ sink' = InsertRows(sink, request.records, result)
       /\ toast' = ToastFor(result)
       /\ lastAttempt' = [kind |-> "attempt", date |-> request.date,
                          period |-> request.period,
                          records |-> request.records, result |-> result]
  /\ saving' = FALSE
  /\ request' = None
  /\ UNCHANGED <<gallery, today, user, cameraOn, selectedPeriod, period8Free,
                 students, attendance, faceApiLoaded, fetchPc, modelsPc, orphans,
                 nSaves, tallyVars, lastManual>>
  /\ UNCHANGED otherVars

\* the table answers an insert whose page is gone: no state of the page changes
OrphanResolve ==
  /\ \E r \in orphans :
       /\ orphans' = orphans \ {r}
       /\ \E result \in InsertResults(sink, r.records) :
            /\ sink' = InsertRows(sink, r.records, result)
            /\ toast' = ToastFor(result)
  /\ UNCHANGED <<gallery, today, user, pageVars, request, nSaves, tallyVars,
                 lastManual, lastAttempt>>
  /\ UNCHANGED otherVars

\* a frame handler that writes the frame's label into the student's status
Sample_WritesStatus ==
  /\ cameraOn
  /\ faceApiLoaded
  /\ \E s \in gallery, label \in Labels :
       /\ Frames < MaxFrames
       /\ count_seen' = [count_seen EXCEPT ![s] = @ + 1]
       /\ count_drowsy' = IF label = "drowsy"
                          THEN [count_drowsy EXCEPT ![s] = @ + 1] ELSE count_drowsy
       /\ last_seen' = [last_seen EXCEPT ![s] = Frames + 1]
       /\ UNCHANGED count_unknown
       /\ attendance' = UpdateStatusMap(attendance, s,
                           IF label = "drowsy" THEN "sleepy" ELSE "present")
  /\ UNCHANGED <<dbVars, user, cameraOn, selectedPeriod, period8Free, students,
                 saving, faceApiLoaded, fetchPc, modelsPc, request, orphans,
                 toast, nSaves, lastManual, lastAttempt>>
  /\ UNCHANGED otherVars

\* a frame of the running camera shows an enrolled student, attentive or
\* drowsy; the page has no handler for frames
Sample ==
  /\ cameraOn
  /\ faceApiLoaded
  /\ \E s \in gallery, label \in Labels :
       /\ Frames < MaxFrames
       /\ count_seen' = [count_seen EXCEPT ![s] = @ + 1]
       /\ count_drowsy' = IF label = "drowsy"
                          THEN [count_drowsy EXCEPT ![s] = @ + 1] ELSE count_drowsy
       /\ last_seen' = [last_seen EXCEPT ![s] = Frames + 1]
       /\ UNCHANGED count_unknown
  /\ UNCHANGED <<dbVars, user, pageVars, request, orphans, toast, nSaves,
                 lastManual, lastAttempt>>
  /\ UNCHANGED otherVars

\* an unknown face attributed to an enrolled student and marked present
SampleUnknown_ForcedMatch ==
  /\ cameraOn
  /\ faceApiLoaded
  /\ Frames < MaxFrames
  /\ count_unknown' = count_unknown + 1
  /\ \E s \in gallery :
       /\ count_seen' = [count_seen EXCEPT ![s] = @ + 1]
       /\ last_seen' = [last_seen EXCEPT ![s] = Frames + 1]
       /\ attendance' = UpdateStatusMap(attendance, s, "present")
  /\ UNCHANGED <<dbVars, user, cameraOn, selectedPeriod, period8Free, students,
                 saving, faceApiLoaded, fetchPc, modelsPc, request, orphans,
                 toast, nSaves, count_drowsy, lastManual, lastAttempt>>
  /\ UNCHANGED otherVars

\* a frame of the running camera shows a person who is no enrolled student;
\* the page has no handler for frames
SampleUnknown ==
  /\ cameraOn
  /\ faceApiLoaded
  /\ Frames < MaxFrames
  /\ count_unknown' = count_unknown + 1
  /\ UNCHANGED <<dbVars, user, pageVars, request, orphans, toast, nSaves,
                 count_seen, count_drowsy, last_seen, lastManual, lastAttempt>>
  /\ UNCHANGED otherVars

\* midnight passes
NextDay ==
  /\ today < MaxDay
  /\ today' = today + 1
  /\ UNCHANGED <<gallery, sink, user, pageVars, request, orphans, toast, nSaves,
                 tallyVars, lastManual, lastAttempt>>
  /\ UNCHANGED otherVars

\* the ids some part of the system knows: a new student row gets none of them
KnownIds ==
  gallery \cup RollIds(attendance) \cup {row.student_id : row \in sink}
    \cup UNION {{r.records[i].student_id : i \in 1..Len(r.records)} :
                 r \in orphans \cup ({request} \ {None})}

\* handleAddStudent on the Students page of some client: the insert succeeded
AddStudent ==
  /\ \E s \in StudentIds \ KnownIds : gallery' = gallery \cup {s}
  /\ UNCHANGED <<sink, today, user, pageVars, request, orphans, toast, nSaves,
                 tallyVars, lastManual, lastAttempt>>
  /\ UNCHANGED otherVars

\* handleDelete on the Students page of some client: the delete succeeded
DeleteStudent ==
  /\ \E s \in gallery : gallery' = gallery \ {s}
  /\ UNCHANGED <<sink, today, user, pageVars, request, orphans, toast, nSaves,
                 tallyVars, lastManual, lastAttempt>>
  /\ UNCHANGED otherVars

\* the page under DashboardLayout after the layout rendered v: mounted anew
\* when the children appear, otherwise as it was
PageAfterRender(v) ==
  IF v = "children" /\ view # "children"
  THEN PageReset
  ELSE UNCHANGED <<pageVars, request, orphans, tallyVars, lastManual,
                   lastAttempt>>

\* useAuth() delivers new values (session read, sign-in, sign-out, expiry):
\* a mounted DashboardLayout renders again and its effect is due
AuthChange ==
  /\ \E l \in BOOLEAN, u \in {UserId, NoUser} :
       /\ <<l, u>> # <<loading, user>>
       /\ loading' = l
       /\ user' = u
       /\ IF location \in LayoutRoutes
          THEN /\ view' = LayoutView(l, u)
               /\ effectPending' = TRUE
               /\ PageAfterRender(view')
          ELSE /\ UNCHANGED <<view, effectPending>>
               /\ PageAfterRender(view)
  /\ UNCHANGED <<dbVars, toast, nSaves, location, matchVars, joinVars, register>>

\* the effect of DashboardLayout: navigate("/login") unmounts the layout
LayoutEffect ==
  /\ effectPending
  /\ effectPending' = FALSE
  /\ IF ~loading /\ user = NoUser
     THEN location' = "/login" /\ view' = "none"
     ELSE UNCHANGED <<location, view>>
  /\ UNCHANGED <<liveVars, loading, matchVars, joinVars, register>>

\* the browser goes to a route (a link, navigate(...) of a page, the address
\* bar): a route under DashboardLayout mounts and renders it
Navigate ==
  /\ \E r \in LayoutRoutes \cup {"/login"} :
       /\ r # location
       /\ location' = r
       /\ IF r \in LayoutRoutes
          THEN /\ view' = LayoutView(loading, user)
               /\ effectPending' = TRUE
          ELSE /\ view' = "none"
               /\ effectPending' = FALSE
       /\ PageAfterRender(view')
  /\ UNCHANGED <<dbVars, user, toast, nSaves, loading, matchVars, joinVars,
                 register>>

\* the matcher compares one descriptor with the gallery (each behaviour
\* follows one descriptor)
MatchDescriptor ==
  /\ probe = None
  /\ \E dist \in [gallery -> [Refs -> 0..MaxDist]],
        threshold \in 0..MaxDist, epsilon \in 0..MaxEps :
       /\ probe' = [kind |-> "probe", dist |-> dist,
                    threshold |-> threshold, epsilon |-> epsilon]
       /\ matched' = Match(probe', gallery)
  /\ UNCHANGED <<liveVars, layoutVars, register, joinVars>>

\* generateCode of the principal's Faculty page: a code no row has yet
GenerateCode ==
  /\ user # NoUser
  /\ \E code \in Codes \ {r.code : r \in faculty_codes} :
       faculty_codes' = faculty_codes \cup
         {[code |-> code, principal_id |-> user, is_used |-> FALSE]}
  /\ UNCHANGED <<liveVars, layoutVars, register, matchVars, authUsers, profiles, join, joinedWith,
                 nJoins>>

\* handleJoin up to its first await: the form is submitted with some code
HandleJoin ==
  /\ nJoins < MaxJoins
  /\ \E c \in JoinClients, code \in Codes :
       /\ join[c].pc = "idle"
       /\ join' = [join EXCEPT ![c] =
                     [JoinIdle EXCEPT !.pc = "code", !.code = code,
                                      !.loading = TRUE, !.toast = join[c].toast]]
  /\ nJoins' = nJoins + 1
  /\ UNCHANGED <<liveVars, layoutVars, register, matchVars, faculty_codes, authUsers, profiles,
                 joinedWith>>

\* a handleJoin whose select does not ask for is_used = false
HandleJoinCodeResolve_NoUsedFilter ==
  /\ \E c \in JoinClients :
       /\ join[c].pc = "code"
       /\ LET rows == {r \in faculty_codes :
                         r.code = join[c].code} IN
          \E answered \in BOOLEAN :
            IF answered /\ Cardinality(rows) = 1
            THEN join' = [join EXCEPT ![c].pc = "signUp",
                                      ![c].codeData = CHOOSE r \in rows : TRUE]
            ELSE join' = [join EXCEPT ![c] = JoinFailed(@, "invalid code")]
  /\ UNCHANGED <<liveVars, layoutVars, register, matchVars, faculty_codes, authUsers, profiles,
                 joinedWith, nJoins>>

\* handleJoin after the select of the unused row with this code (.single())
HandleJoinCodeResolve ==
  /\ \E c \in JoinClients :
       /\ join[c].pc = "code"
       /\ LET rows == {r \in faculty_codes :
                         r.code = join[c].code /\ ~r.is_used} IN
          \E answered \in BOOLEAN :
            IF answered /\ Cardinality(rows) = 1
            THEN join' = [join EXCEPT ![c].pc = "signUp",
                                      ![c].codeData = CHOOSE r \in rows : TRUE]
            ELSE join' = [join EXCEPT ![c] = JoinFailed(@, "invalid code")]
  /\ UNCHANGED <<liveVars, layoutVars, register, matchVars, faculty_codes, authUsers, profiles,
                 joinedWith, nJoins>>

\* handleJoin after auth.signUp: an error, a new account, or no user in the answer
HandleJoinSignUpResolve ==
  /\ \E c \in JoinClients :
       /\ join[c].pc = "signUp"
       /\ \E answer \in {"error", "user", "nouser"} :
            CASE answer = "error" ->
                   /\ join' = [join EXCEPT ![c] = JoinFailed(@, "error")]
                   /\ UNCHANGED authUsers
              [] answer = "user" ->
                   LET id == Cardinality(authUsers) + 1 IN
                   /\ authUsers' = authUsers \cup {id}
                   /\ join' = [join EXCEPT ![c].pc = "profile", ![c].userId = id]
              [] answer = "nouser" ->
                   /\ join' = [join EXCEPT ![c].pc = "idle", ![c].loading = FALSE]
                   /\ UNCHANGED authUsers
  /\ UNCHANGED <<liveVars, layoutVars, register, matchVars, faculty_codes, profiles, joinedWith,
                 nJoins>>

\* handleJoin after the insert of the profile row
HandleJoinProfileResolve ==
  /\ \E c \in JoinClients :
       /\ join[c].pc = "profile"
       /\ \E inserted \in BOOLEAN :
            IF inserted
            THEN /\ profiles' = profiles \cup
                      {[id |-> join[c].userId, role |-> "faculty",
                        principal_id |-> join[c].codeData.principal_id]}
                 /\ joinedWith' = joinedWith \cup
                      {[id |-> join[c].userId, code |-> join[c].codeData.code]}
                 /\ join' = [join EXCEPT ![c].pc = "update"]
            ELSE /\ join' = [join EXCEPT ![c] = JoinFailed(@, "error")]
                 /\ UNCHANGED <<profiles, joinedWith>>
  /\ UNCHANGED <<liveVars, layoutVars, register, matchVars, faculty_codes, authUsers, nJoins>>

\* handleJoin after the update that marks the code used, which may have been
\* refused: the result is not looked at
HandleJoinUpdateResolve ==
  /\ \E c \in JoinClients :
       /\ join[c].pc = "update"
       /\ \E updated \in BOOLEAN :
            faculty_codes' =
              IF updated
              THEN {IF r.code = join[c].codeData.code
                      THEN [r EXCEPT !.is_used = TRUE] ELSE r : r \in faculty_codes}
              ELSE faculty_codes
       /\ join' = [join EXCEPT ![c].pc = "idle", ![c].loading = FALSE,
                                ![c].toast = "account created"]
  /\ UNCHANGED <<liveVars, layoutVars, register, matchVars, authUsers, profiles, joinedWith, nJoins>>

\* handleRegister up to its await: the Register form is submitted
HandleRegister ==
  /\ register.pc = "idle"
  /\ Cardinality(authUsers) < MaxAccounts
  /\ register' = [RegisterIdle EXCEPT !.pc = "signUp", !.loading = TRUE,
                                      !.toast = register.toast]
  /\ UNCHANGED <<liveVars, matchVars, joinVars, layoutVars>>

\* handleRegister after auth.signUp: an error, a new account, or no user
HandleRegisterSignUpResolve ==
  /\ register.pc = "signUp"
  /\ \E answer \in {"error", "user", "nouser"} :
       CASE answer = "error" ->
              /\ register' = [register EXCEPT !.pc = "idle", !.loading = FALSE,
                                              !.toast = "error"]
              /\ UNCHANGED authUsers
         [] answer = "user" ->
              LET id == Cardinality(authUsers) + 1 IN
              /\ authUsers' = authUsers \cup {id}
              /\ register' = [register EXCEPT !.pc = "profile", !.userId = id]
         [] answer = "nouser" ->
              /\ register' = [register EXCEPT !.pc = "idle", !.loading = FALSE]
              /\ UNCHANGED authUsers
  /\ UNCHANGED <<liveVars, matchVars, layoutVars, faculty_codes, profiles, join,
                 joinedWith, nJoins>>

\* handleRegister after the insert of the principal's profile row
HandleRegisterProfileResolve ==
  /\ register.pc = "profile"
  /\ \E inserted \in BOOLEAN :
       IF inserted
       THEN /\ profiles' = profiles \cup
                 {[id |-> register.userId, role |-> "principal",
                   principal_id |-> "null"]}
            /\ register' = [register EXCEPT !.pc = "idle", !.loading = FALSE,
                                            !.toast = "account created"]
       ELSE /\ register' = [register EXCEPT !.pc = "idle", !.loading = FALSE,
                                            !.toast = "error"]
            /\ UNCHANGED profiles
  /\ UNCHANGED <<liveVars, matchVars, layoutVars, faculty_codes, authUsers, join,
                 joinedWith, nJoins>>

\* handleAddFaculty of the principal's Faculty page, signUp answered with a
\* new account: the handler inserts no profile
HandleAddFaculty ==
  /\ user # NoUser
  /\ Cardinality(authUsers) < MaxAccounts
  /\ authUsers' = authUsers \cup {Cardinality(authUsers) + 1}
  /\ UNCHANGED <<liveVars, matchVars, layoutVars, register, faculty_codes,
                 profiles, join, joinedWith, nJoins>>

\* the page, the clock and the attendance sink
Next ==
  \/ Mount
  \/ FetchStudentsResolve
  \/ SelectPeriod
  \/ TogglePeriod8Free
  \/ UpdateStatus
  \/ MarkAllPresent
  \/ SaveAttendance
  \/ SaveAttendanceResolve
  \/ OrphanResolve
  \/ NextDay

Spec == Init /\ [][Next]_vars

\* repeated commits of whole-class rolls: the sink under every order of saves
NextSink ==
  \/ Mount
  \/ FetchStudentsResolve
  \/ SelectPeriod
  \/ MarkAllPresent
  \/ SaveAttendance
  \/ SaveAttendanceResolve
  \/ OrphanResolve
  \/ NextDay

SpecSink == Init /\ [][NextSink]_vars

\* one session with the camera: recognition, manual marking and the commit
NextAuto ==
  \/ FetchStudentsResolve
  \/ LoadModelsResolve
  \/ ToggleCamera
  \/ Sample
  \/ UpdateStatus
  \/ MarkAllPresent
  \/ SaveAttendance

SpecAuto == Init /\ [][NextAuto]_vars

\* the frames of one session, recognized or not, and the manual marking
NextFrames ==
  \/ FetchStudentsResolve
  \/ LoadModelsResolve
  \/ ToggleCamera
  \/ Sample
  \/ SampleUnknown
  \/ UpdateStatus

SpecFrames == Init /\ [][NextFrames]_vars

\* one session without the camera, up to the insert it sends to the sink
NextRoll ==
  \/ FetchStudentsResolve
  \/ SelectPeriod
  \/ TogglePeriod8Free
  \/ UpdateStatus
  \/ MarkAllPresent
  \/ SaveAttendance

SpecRoll == Init /\ [][NextRoll]_vars

\* sessions and commits while the Students page changes the gallery
NextGallery ==
  \/ Mount
  \/ FetchStudentsResolve
  \/ SaveAttendance
  \/ SaveAttendanceResolve
  \/ OrphanResolve
  \/ AddStudent
  \/ DeleteStudent

SpecGallery == Init /\ [][NextGallery]_vars

\* the period selector, the free-period switch and the commits of one session
NextPeriod ==
  \/ FetchStudentsResolve
  \/ SelectPeriod
  \/ TogglePeriod8Free
  \/ SaveAttendance
  \/ SaveAttendanceResolve

SpecPeriod == Init /\ [][NextPeriod]_vars

\* the Live Attendance page under DashboardLayout while the session changes
NextLayout ==
  \/ AuthChange
  \/ LayoutEffect
  \/ Navigate
  \/ FetchStudentsResolve
  \/ SelectPeriod
  \/ MarkAllPresent

SpecLayout == Init /\ [][NextLayout]_vars

\* the same, where every insert is answered in the end: the promise of
\* insert(records) settles, with the rows or with an error
SpecSave ==
  Init /\ [][NextPeriod]_vars /\ WF_vars(SaveAttendanceResolve)

\* the matcher alone, over every descriptor, threshold and margin
NextMatch ==
  \/ MatchDescriptor

SpecMatch == Init /\ [][NextMatch]_vars

\* invitation codes and the Join as Faculty form in two browsers
NextJoin ==
  \/ GenerateCode
  \/ HandleJoin
  \/ HandleJoinCodeResolve
  \/ HandleJoinSignUpResolve
  \/ HandleJoinProfileResolve
  \/ HandleJoinUpdateResolve

SpecJoin == Init /\ [][NextJoin]_vars

\* the three forms that create accounts
NextAccounts ==
  \/ GenerateCode
  \/ HandleJoin
  \/ HandleJoinCodeResolve
  \/ HandleJoinSignUpResolve
  \/ HandleJoinProfileResolve
  \/ HandleJoinUpdateResolve
  \/ HandleRegister
  \/ HandleRegisterSignUpResolve
  \/ HandleRegisterProfileResolve
  \/ HandleAddFaculty

SpecAccounts == Init /\ [][NextAccounts]_vars

\* ------------------------------------------------------------- claims
\* a step in which saveAttendance hands a roll to the sink
SaveStep == request = None /\ request' # None

\* the records hold exactly one entry for every student of S and no other
ExactlyOnePer(records, S) ==
  /\ \A s \in S : Cardinality({i \in 1..Len(records) : records[i].student_id = s}) = 1
  /\ \A i \in 1..Len(records) : records[i].student_id \in S

\* C1: the roll saveAttendance hands to the sink holds exactly one entry for
\* each student enrolled at session start, also when Save is pressed before
\* the roster fetch has resolved.
C1_RollComplete ==
  request # None => ExactlyOnePer(request.records, gallery)

\* C2: the sink holds at most one record for each (student_id, date, period).
C2_OneRecordPerKey ==
  \A r1, r2 \in sink : Key(r1) = Key(r2) => r1 = r2

\* a save for a key the sink already holds, with another status, was answered
C2_Witness ==
  /\ lastAttempt # None
  /\ lastAttempt.result = "duplicate"
  /\ \E i \in 1..Len(lastAttempt.records) : \E row \in sink :
       /\ Key(row) = Key(lastAttempt.records[i])
       /\ row.status # lastAttempt.records[i].status

\* the session of (date, period) is finalized: this page's last commit for
\* it, of a roll with at least one entry, succeeded
Finalized(date, period) ==
  /\ lastAttempt # None
  /\ lastAttempt.result = "success"
  /\ Len(lastAttempt.records) > 0
  /\ lastAttempt.date = date
  /\ lastAttempt.period = period

\* C3: once a session is finalized, saving it again issues no second write
\* to the sink.
C3_NoSecondCommit ==
  [][SaveStep => ~Finalized(request'.date, request'.period)]_vars

\* the sink holds a roll for the session key
SinkHolds(date, period) ==
  \E row \in sink : row.date = date /\ row.period = period

\* C4: a commit for a (date, period) the sink already holds a roll for is
\* rejected: the stored records stay as they are and the caller is told so
\* with an error, never with a success.
C4_SecondCommitRejected ==
  [][(SaveAttendanceResolve /\ SinkHolds(request.date, request.period))
       => /\ sink' = sink
          /\ lastAttempt'.result # "success"
          /\ toast' \in {"already recorded", "error"}]_vars

\* the statuses of a roll, by student
RollOf(records) ==
  [i \in 1..Len(records) |->
     [student_id |-> records[i].student_id, status |-> records[i].status]]

\* C7: after a sink write of a roll (with at least one entry) failed for a
\* reason other than a conflict, the next save submits the roll of the failed
\* attempt.
C7_RetryResendsSameRoll ==
  [][(SaveStep /\ lastAttempt # None /\ lastAttempt.result = "unavailable"
        /\ Len(lastAttempt.records) > 0)
       => RollOf(request'.records) = RollOf(lastAttempt.records)]_vars

\* the status the manual operations leave for a student of the roll
NoOverride(s) == lastManual[s] = "none"

\* C8: when the models failed to load, faceApiLoaded is false and the saved
\* roll has one entry for every enrolled student, absent unless overridden.
C8_ManualModeKeepsEveryStudent ==
  [][modelsPc' = "failed" =>
       /\ ~faceApiLoaded'
       /\ SaveStep =>
            /\ ExactlyOnePer(request'.records, gallery)
            /\ \A i \in 1..Len(request'.records) :
                 NoOverride(request'.records[i].student_id)
                   => request'.records[i].status = "absent"]_vars

\* more than half of the frames that showed the student were drowsy
DrowsyMajority(s) == 2 * count_drowsy[s] > count_seen[s]

\* C9: a student seen in some frame and never overridden is saved as sleepy
\* exactly when the drowsy frames exceed half of the frames seen, and as
\* present otherwise.
C9_MajorityRule ==
  [][SaveStep =>
       \A i \in 1..Len(request'.records) :
         LET s == request'.records[i].student_id IN
         (count_seen[s] > 0 /\ NoOverride(s))
           => request'.records[i].status =
                IF DrowsyMajority(s) THEN "sleepy" ELSE "present"]_vars

\* C10: a student seen in some frame, in attentive frames only, and never
\* overridden is saved as present.
C10_AttentiveIsPresent ==
  [][SaveStep =>
       \A i \in 1..Len(request'.records) :
         LET s == request'.records[i].student_id IN
         (count_seen[s] > 0 /\ count_drowsy[s] = 0 /\ NoOverride(s))
           => request'.records[i].status = "present"]_vars

\* C5: a student's status in the roll, and in the roll handed to the sink, is
\* the one of the last manual operation on that student, whatever frames
\* showed the student before or after it.
C5_OverrideWins ==
  [][/\ \A i \in 1..Len(attendance') :
          lastManual'[attendance'[i].studentId] # "none"
            => attendance'[i].status = lastManual'[attendance'[i].studentId]
     /\ SaveStep =>
          \A i \in 1..Len(request'.records) :
            ~NoOverride(request'.records[i].student_id)
              => request'.records[i].status = lastManual[request'.records[i].student_id]]_vars

\* a student marked absent by hand, seen attentive in two frames, saved as absent
C5_Witness ==
  /\ request # None
  /\ \E i \in 1..Len(request.records) :
       LET s == request.records[i].student_id IN
       /\ lastManual[s] = "absent"
       /\ count_seen[s] >= 2
       /\ count_drowsy[s] = 0
       /\ request.records[i].status = "absent"
       /\ attendance[i].status = "absent"

\* C6: an entry of a student never seen and never overridden is absent, in
\* the roll and in the roll handed to the sink.
C6_UnseenIsAbsent ==
  [][/\ \A i \in 1..Len(attendance') :
          (count_seen'[attendance'[i].studentId] = 0
             /\ lastManual'[attendance'[i].studentId] = "none")
            => attendance'[i].status = "absent"
     /\ SaveStep =>
          \A i \in 1..Len(request'.records) :
            (count_seen[request'.records[i].student_id] = 0
               /\ NoOverride(request'.records[i].student_id))
              => request'.records[i].status = "absent"]_vars

\* a roll was saved in which one student was marked by hand or seen, and
\* another, never seen and never marked, is absent
C6_Witness ==
  /\ request # None
  /\ \E i, j \in 1..Len(request.records) :
       LET s == request.records[i].student_id
           t == request.records[j].student_id IN
       /\ count_seen[s] = 0 /\ NoOverride(s)
       /\ request.records[i].status = "absent"
       /\ attendance[i].status = "absent"
       /\ count_seen[t] > 0 /\ request.records[j].status = "present"

\* C11: a frame whose match result is unknown leaves every student's tally
\* (count_seen, count_drowsy, last_seen) and every status of the roll as
\* they were.
C11_UnknownChangesNothing ==
  [][count_unknown' > count_unknown
       => UNCHANGED <<count_seen, count_drowsy, last_seen, attendance>>]_vars

\* an unknown frame came after a frame that showed a student whose entry is
\* marked, and the student's tally is the one of that earlier frame
C11_Witness ==
  /\ count_unknown > 0
  /\ \E i \in 1..Len(attendance) :
       LET s == attendance[i].studentId IN
       /\ count_seen[s] = 1
       /\ last_seen[s] = 1
       /\ Frames > 1
       /\ attendance[i].status = "sleepy"
\* C12: the matcher returns an identity only when that identity is strictly
\* nearer than every other and within the threshold; it returns unknown when
\* every identity is beyond the threshold, and when two identities are both
\* within epsilon of the minimum distance.
C12_MatcherContract ==
  probe # None =>
    LET S == DOMAIN probe.dist
        D(s) == IdentityDistance(probe.dist, s)
    IN /\ matched \in S \cup {Unknown}
       /\ matched # Unknown =>
            /\ D(matched) <= probe.threshold
            /\ \A t \in S \ {matched} : D(t) > D(matched)
       /\ (\A s \in S : D(s) > probe.threshold) => matched = Unknown
       /\ (\E s, t \in S :
             /\ s # t
             /\ \A u \in S : D(s) <= D(u)
             /\ D(t) - D(s) <= probe.epsilon) => matched = Unknown

C12_Witness ==
  /\ probe # None
  /\ matched # Unknown
  /\ \E t \in DOMAIN probe.dist :
       /\ t # matched
       /\ IdentityDistance(probe.dist, t) <= probe.threshold
       /\ probe.dist[matched]["ref1"] > probe.dist[matched]["ref2"]

\* C13: every record in the attendance sink, and every record of an insert on
\* its way there, has a period in 1..8 and a status among present, sleepy and
\* absent; every entry of the in-memory roll has a status among these three.
C13_WellFormedRecords ==
  /\ \A row \in sink :
       row.period \in 1..NumPeriods /\ row.status \in Statuses
  /\ request # None =>
       \A i \in 1..Len(request.records) :
         /\ request.records[i].period \in 1..NumPeriods
         /\ request.records[i].status \in Statuses
  /\ \A i \in 1..Len(attendance) : attendance[i].status \in Statuses

C13_Witness ==
  /\ request # None
  /\ \E i, j \in 1..Len(request.records) :
       /\ request.records[i].period = 8
       /\ request.records[i].status = "sleepy"
       /\ request.records[j].status = "present"
  /\ \E i \in 1..Len(attendance) : attendance[i].status = "sleepy"

\* C14: while the session on the page is finalized (its roll, with at least
\* one entry, was committed to the sink), no operation changes a status of
\* the roll.
C14_FinalizedRollFrozen ==
  [][(/\ Finalized(today, ParseInt(selectedPeriod))
      /\ Finalized(today, ParseInt(selectedPeriod))')
       => attendance' = attendance]_vars

\* the roll the page would hand to the sink for a period (lines 112-120)
RollSavedFor(att, period) == Records(att, today, period, user)

\* C15: a status set while one period is selected leaves the roll saved for
\* every other period as it was.
C15_PeriodsIndependent ==
  [][(UpdateStatus \/ MarkAllPresent)
       => \A q \in (1..NumPeriods) \ {ParseInt(selectedPeriod)} :
            RollSavedFor(attendance', q) = RollSavedFor(attendance, q)]_vars

\* the rows of an insert
RowsOf(records) == {records[i] : i \in 1..Len(records)}

\* C16: a save hands the whole roll to the sink as one insert, and every
\* change of the sink is the work of one insert whose records were all
\* written by it: an insert writes every record of its roll or none.
C16_CommitAllOrNothing ==
  [][/\ SaveStep =>
          request'.records =
            Records(attendance, today, ParseInt(selectedPeriod), user)
     /\ sink' # sink =>
          \E a \in (orphans \cup {request}) \ {None} :
            /\ RowsOf(a.records) \cap sink = {}
            /\ sink' = sink \cup RowsOf(a.records)]_vars

\* a roll of which one record conflicts with the sink and another does not
\* was refused, and the sink holds nothing of the record that did not conflict
C16_Witness ==
  /\ lastAttempt # None
  /\ lastAttempt.result = "duplicate"
  /\ \E i, j \in 1..Len(lastAttempt.records) :
       /\ \E row \in sink : Key(row) = Key(lastAttempt.records[i])
       /\ \A row \in sink : Key(row) # Key(lastAttempt.records[j])

\* C17: once the roster of a session is loaded, the students of the roll stay
\* the same until the page is left, whatever happens to the gallery.
C17_RosterIsSnapshot ==
  [][(fetchPc = "done" /\ fetchPc' = "done")
       => /\ students' = students
          /\ RollIds(attendance') = RollIds(attendance)]_vars

\* a loaded roster that the gallery has moved away from in both directions
C17_Witness ==
  /\ fetchPc = "done"
  /\ RollIds(attendance) \ gallery # {}
  /\ gallery \ RollIds(attendance) # {}

\* C18: for every invitation code, at most one faculty profile was created
\* through handleJoin with that code.
C18_CodeSingleUse ==
  \A code \in Codes :
    Cardinality({p \in joinedWith : p.code = code}) <= 1

\* C19 as stated: in every state the selected period is one of the periods
\* the selector offers, 1..7 when "Period 8 is free" is on and 1..8 otherwise.
C19_SelectedPeriodOffered ==
  ParseInt(selectedPeriod) \in 1..(IF period8Free THEN 7 ELSE 8)

\* C19 amended: the selected period is always one of 1..8, every selection
\* picks a period the selector offers at that moment, and the selected period
\* is outside the offered ones only as period 8 selected before the switch
\* was turned on.
C19_SelectionWithinOffered ==
  [][/\ ParseInt(selectedPeriod') \in 1..NumPeriods
     /\ selectedPeriod' # selectedPeriod =>
          ParseInt(selectedPeriod') \in 1..(IF period8Free THEN 7 ELSE 8)
     /\ (C19_SelectedPeriodOffered /\ ~C19_SelectedPeriodOffered') =>
          /\ selectedPeriod = "8" /\ selectedPeriod' = "8"
          /\ ~period8Free /\ period8Free']_vars

\* period 8 stayed selected when the switch was turned on, and a later
\* selection moved to a period still offered
C19_Witness ==
  /\ period8Free
  /\ selectedPeriod = "1"
  /\ toast = "period 8 free"

\* C20 as stated: a save with period 8 selected and the switch on changes
\* neither the sink nor the roll, and no record with period 8 is written to the
\* sink while the switch is on.
C20_NoPeriod8WhileFree ==
  [][/\ (SaveAttendance /\ selectedPeriod = "8" /\ period8Free) =>
          sink' = sink /\ attendance' = attendance
     /\ period8Free => \A row \in sink' \ sink : row.period # 8]_vars

\* C20 amended: a save with period 8 selected and the switch on sends no
\* insert and changes neither the sink nor the roll, and no insert with
\* period 8 is sent while the switch is on.
C20_NoPeriod8InsertWhileFree ==
  [][/\ (SaveAttendance /\ selectedPeriod = "8" /\ period8Free) =>
          /\ sink' = sink /\ attendance' = attendance
          /\ request' = request /\ saving' = saving
     /\ (SaveStep /\ period8Free) => request'.period # 8]_vars

\* the skip happened on a loaded roll
C20_Witness ==
  /\ toast = "period 8 free"
  /\ selectedPeriod = "8"
  /\ period8Free
  /\ Len(attendance) > 0
  /\ request = None

\* C21: DashboardLayout shows its children only when auth loading has
\* finished and a user is signed in; when loading has finished with no user,
\* the children are not shown and the layout's route is left for /login (the
\* effect that navigates there is due or has run).
C21_ChildrenOnlyForUser ==
  /\ view = "children" => ~loading /\ user # NoUser
  /\ (~loading /\ user = NoUser) =>
       /\ view # "children"
       /\ location = "/login" \/ effectPending

\* a session in use was signed out and the browser sent to /login
C21_Witness ==
  /\ ~loading
  /\ user = NoUser
  /\ location = "/login"
  /\ ~effectPending
  /\ view = "none"

\* the flow that signed the account up has not ended yet
FlowRunning(id) ==
  \/ \E c \in JoinClients :
       join[c].userId = id /\ join[c].pc \in {"profile", "update"}
  \/ register.userId = id /\ register.pc = "profile"

\* C22: every account a registration flow created has a profile row once
\* that flow has ended.
C22_AccountHasProfile ==
  \A id \in authUsers :
    FlowRunning(id) \/ \E p \in profiles : p.id = id

\* C23: a handleJoin whose code, when looked up, has no row or only a used
\* one ends there: loading is false again, and no account, no profile and no
\* change of the code table came of it.
C23_BadCodeCreatesNothing ==
  [][\A c \in JoinClients :
       (/\ join[c].pc = "code"
        /\ join'[c] # join[c]
        /\ \A r \in faculty_codes : r.code = join[c].code => r.is_used)
         => /\ join'[c].pc = "idle"
            /\ ~join'[c].loading
            /\ authUsers' = authUsers
            /\ profiles' = profiles
            /\ faculty_codes' = faculty_codes]_vars

\* a join with a code that an earlier join had used up was turned away
C23_Witness ==
  /\ \E c \in JoinClients :
       /\ join[c].pc = "idle"
       /\ join[c].toast = "invalid code"
       /\ ~join[c].loading
       /\ \E r \in faculty_codes : r.code = join[c].code /\ r.is_used
  /\ Cardinality(profiles) = 1

\* C24: updateStatus(studentId, status) gives the entry of that student the
\* status and leaves every other entry, the students of the roll and their
\* order as they were; for a student who is not in the roll nothing changes.
C24_UpdateStatusFrame ==
  [][/\ \A s \in StudentIds \ RollIds(attendance), st \in Statuses :
          UpdateStatusMap(attendance, s, st) = attendance
     /\ UpdateStatus =>
       \E s \in StudentIds, st \in Statuses :
         /\ Len(attendance') = Len(attendance)
         /\ \A i \in 1..Len(attendance) :
              /\ attendance'[i].studentId = attendance[i].studentId
              /\ attendance'[i].rollNumber = attendance[i].rollNumber
              /\ attendance'[i].status =
                   IF attendance[i].studentId = s THEN st
                   ELSE attendance[i].status
         /\ IF s \in RollIds(attendance)
            THEN lastManual'[s] = st
            ELSE attendance' = attendance /\ lastManual' = lastManual]_vars

\* one student of two was marked sleepy, the other is as loaded
C24_Witness ==
  \E i, j \in 1..Len(attendance) :
    /\ attendance[i].status = "sleepy"
    /\ lastManual[attendance[i].studentId] = "sleepy"
    /\ attendance[j].status = "absent"
    /\ lastManual[attendance[j].studentId] = "none"

\* C25: markAllPresent makes every entry of the roll present, whatever its
\* status was, keeps the students and their order, and doing it again
\* changes nothing.
C25_MarkAllPresent ==
  [][MarkAllPresent =>
       /\ Len(attendance') = Len(attendance)
       /\ \A i \in 1..Len(attendance) :
            /\ attendance'[i].status = "present"
            /\ attendance'[i].studentId = attendance[i].studentId
            /\ attendance'[i].rollNumber = attendance[i].rollNumber
       /\ MarkAllPresentMap(attendance') = attendance']_vars

\* a roll that was sent to the sink with a sleepy entry is all present now
C25_Witness ==
  /\ request # None
  /\ \E i \in 1..Len(request.records) : request.records[i].status = "sleepy"
  /\ Len(attendance) > 1
  /\ \A i \in 1..Len(attendance) :
       /\ attendance[i].status = "present"
       /\ lastManual[attendance[i].studentId] = "present"

\* C26: saving is true exactly while an insert of saveAttendance is awaited,
\* and whenever it is true it becomes false again: the skip for a free period
\* 8 never leaves it set, and the answer of the insert, error or success,
\* resets it.
C26_SavingResets ==
  /\ [](saving <=> request # None)
  /\ [][(SaveAttendance /\ selectedPeriod = "8" /\ period8Free) => ~saving']_vars
  /\ saving ~> ~saving

\* a save ended on each path: the insert failed, and later the skip
C26_Witness ==
  /\ ~saving
  /\ lastAttempt # None
  /\ lastAttempt.result = "unavailable"
  /\ toast = "period 8 free"

====
